---------------------------- MODULE Spec2Model ----------------------------
(***************************************************************************)
(* A model of app.py, the Premier League dashboard: the loader load_data   *)
(* (CSV -> normalized table) and the Streamlit script that, on every       *)
(* interaction, reruns top to bottom over the cached table.                *)
(*                                                                         *)
(* A table is a record [cols, rows]: the set of its column names and the   *)
(* sequence of its rows, each row a function from the column names to      *)
(* cell values.  Text cells are strings, numeric cells are integers, a     *)
(* season label and a date text are sequences of one-character strings     *)
(* (so that Python's string comparison and strptime can be computed).      *)
(***************************************************************************)
EXTENDS Integers, Sequences, FiniteSets, TLC

VARIABLES
    source,       \* the file "England CSV.csv" as the loader finds it
    status,       \* "start", "ok", or the name of the exception load_data raised
    df,           \* the module-level table df of the last run (line 81)
    pagina,       \* sidebar radio "Selecione a analise" (line 22)
    analise_tipo, \* sidebar radio "Escopo Temporal" (line 87)
    df_analise,   \* the working table of the last run (lines 93-97)
    sel,          \* the selectbox values of the last run
    out,          \* what the last run computed and displayed
    reloaded,     \* whether load_data has been executed more than once
    cache,        \* the table st.cache_data holds for load_data (line 31)
    calc          \* inputs and result of a scalar formula evaluated on its own

vars == <<source, status, reloaded, cache, df, pagina, analise_tipo, df_analise, sel, out, calc>>

-----------------------------------------------------------------------------
(* Bounds of the model *)

\* rows of a source file in the dashboard specification
MaxRows == 2
\* rows of a source file in the loader specification
MaxLoadRows == 2
\* largest games / wins / draws count fed to the scalar formulas
MaxTestesRows == 3
MaxSeasons == 20
MaxGames == 20

-----------------------------------------------------------------------------
(* Cell values *)

\* pandas' missing value in a numeric column (an empty CSV cell)
NaN == -999
\* pandas' missing value in a text column (an empty CSV cell)
NaS == "<NaN>"
\* pandas' missing timestamp
NaT == <<>>

IsNull(v) == v = NaN

\* a + b on two cells: NaN propagates (lines 51-58)
CellAdd(a, b) == IF IsNull(a) \/ IsNull(b) THEN NaN ELSE a + b
CellSub(a, b) == IF IsNull(a) \/ IsNull(b) THEN NaN ELSE a - b
\* comparisons with NaN are False
CellGt(a, b) == ~IsNull(a) /\ ~IsNull(b) /\ a > b
CellEq(a, b) == ~IsNull(a) /\ ~IsNull(b) /\ a = b
CellLt(a, b) == ~IsNull(a) /\ ~IsNull(b) /\ a < b
\* bool.astype(int)
AsInt(b) == IF b THEN 1 ELSE 0

-----------------------------------------------------------------------------
(* Strings as character sequences *)

Digits == {"0", "1", "2", "3", "4", "5", "6", "7", "8", "9"}

\* the code point of a character, which is what Python's str comparison uses
CharCode(c) ==
    CASE c = "-" -> 45 [] c = "/" -> 47
      [] c = "0" -> 48 [] c = "1" -> 49 [] c = "2" -> 50 [] c = "3" -> 51
      [] c = "4" -> 52 [] c = "5" -> 53 [] c = "6" -> 54 [] c = "7" -> 55
      [] c = "8" -> 56 [] c = "9" -> 57

DigitVal(c) == CharCode(c) - 48

\* StrLess on the two characters after the slash, the year a season ends in
StrLess_Sufixo(a, b) ==
    IF Len(a) >= 2 /\ Len(b) >= 2
    THEN (CharCode(a[Len(a) - 1]) * 256 + CharCode(a[Len(a)]))
             < (CharCode(b[Len(b) - 1]) * 256 + CharCode(b[Len(b)]))
    ELSE Len(a) < Len(b)

RECURSIVE StrLess(_, _)
\* a < b on Python strings: lexicographic by code point, a proper prefix first
StrLess(a, b) ==
    IF b = <<>> THEN FALSE
    ELSE IF a = <<>> THEN TRUE
    ELSE IF Head(a) # Head(b) THEN CharCode(Head(a)) < CharCode(Head(b))
    ELSE StrLess(Tail(a), Tail(b))

\* a >= b on Python strings
StrGE(a, b) == ~StrLess(a, b)

RECURSIVE Sorted(_)
\* sorted() of a set of strings (lines 186, 594, 846)
Sorted(S) ==
    IF S = {} THEN <<>>
    ELSE LET m == CHOOSE x \in S : \A y \in S : ~StrLess(y, x)
         IN  <<m>> \o Sorted(S \ {m})

RECURSIVE NumVal(_)
\* int() of a sequence of digits
NumVal(s) == IF s = <<>> THEN 0 ELSE NumVal(SubSeq(s, 1, Len(s) - 1)) * 10 + DigitVal(s[Len(s)])

AllDigits(s) == \A i \in 1..Len(s) : s[i] \in Digits

\* positions of "/" in a character sequence
Slashes(s) == {i \in 1..Len(s) : s[i] = "/"}

IsLeap(y) == (y % 4 = 0 /\ y % 100 # 0) \/ y % 400 = 0

DaysIn(m, y) ==
    IF m = 2 THEN (IF IsLeap(y) THEN 29 ELSE 28)
    ELSE IF m \in {4, 6, 9, 11} THEN 30 ELSE 31

\* the day, month and year texts of a date text with exactly two "/"
DateParts(s) ==
    LET i == CHOOSE k \in Slashes(s) : \A j \in Slashes(s) : k <= j
        j == CHOOSE k \in Slashes(s) : k # i
    IN  [d |-> SubSeq(s, 1, i - 1), m |-> SubSeq(s, i + 1, j - 1),
         y |-> SubSeq(s, j + 1, Len(s))]

\* whether pd.to_datetime(text, format='%d/%m/%Y') accepts one cell (line 61):
\* a missing cell (it becomes NaT) or a day/month/year text of a real date;
\* any other text raises ValueError
DateParses(s) ==
    \/ s = NaT
    \/ /\ Cardinality(Slashes(s)) = 2
       /\ LET p == DateParts(s)
          IN  /\ Len(p.d) \in {1, 2} /\ Len(p.m) \in {1, 2} /\ Len(p.y) = 4
              /\ AllDigits(p.d) /\ AllDigits(p.m) /\ AllDigits(p.y)
              /\ NumVal(p.m) \in 1..12
              /\ NumVal(p.d) \in 1..DaysIn(NumVal(p.m), NumVal(p.y))

\* the timestamp of an accepted cell, <<year, month, day>>, NaT for a missing one
ParseDate(s) ==
    IF s = NaT THEN NaT
    ELSE LET p == DateParts(s) IN <<NumVal(p.y), NumVal(p.m), NumVal(p.d)>>

-----------------------------------------------------------------------------
(* Columns *)

\* the rename table of load_data (lines 39-48)
ColumnMap ==
    [c \in {"Date", "Season", "HomeTeam", "AwayTeam", "FTH Goals", "FTA Goals",
            "FT Result", "HTH Goals", "HTA Goals", "HT Result", "H Shots",
            "A Shots", "H SOT", "A SOT", "H Fouls", "A Fouls", "H Corners",
            "A Corners", "H Yellow", "A Yellow", "H Red", "A Red", "Referee"} |->
        CASE c = "Date" -> "Data" [] c = "Season" -> "Temporada"
          [] c = "HomeTeam" -> "Time_Casa" [] c = "AwayTeam" -> "Time_Visitante"
          [] c = "FTH Goals" -> "Gols_Time_Casa" [] c = "FTA Goals" -> "Gols_Time_Visitante"
          [] c = "FT Result" -> "Resultado_Final"
          [] c = "HTH Goals" -> "Gols_Casa_1T" [] c = "HTA Goals" -> "Gols_Visitante_1T"
          [] c = "HT Result" -> "Resultado_1T"
          [] c = "H Shots" -> "Chutes_Casa" [] c = "A Shots" -> "Chutes_Visitante"
          [] c = "H SOT" -> "Chutes_Gol_Casa" [] c = "A SOT" -> "Chutes_Gol_Visitante"
          [] c = "H Fouls" -> "Faltas_Casa" [] c = "A Fouls" -> "Faltas_Visitante"
          [] c = "H Corners" -> "Escanteios_Casa" [] c = "A Corners" -> "Escanteios_Visitante"
          [] c = "H Yellow" -> "Amarelos_Casa" [] c = "A Yellow" -> "Amarelos_Visitante"
          [] c = "H Red" -> "Vermelhos_Casa" [] c = "A Red" -> "Vermelhos_Visitante"
          [] c = "Referee" -> "Árbitro"]

\* the raw field names of the rename table
RawCols == DOMAIN ColumnMap

\* the 12 optional statistical fields (lines 70-73)
colunas_estatisticas ==
    {"Chutes_Casa", "Chutes_Visitante", "Chutes_Gol_Casa", "Chutes_Gol_Visitante",
     "Faltas_Casa", "Faltas_Visitante", "Escanteios_Casa", "Escanteios_Visitante",
     "Amarelos_Casa", "Amarelos_Visitante", "Vermelhos_Casa", "Vermelhos_Visitante"}

\* the raw names of the 12 statistical fields
RawStatCols == {c \in RawCols : ColumnMap[c] \in colunas_estatisticas}

\* the team-name alias table (line 65)
team_mapping == [t \in {"Brighton", "Ipswich"} |->
                    IF t = "Brighton" THEN "Brighton & Hove Albion" ELSE "Ipswich Town"]

\* the result-label table (line 62)
result_mapping == [r \in {"H", "A", "D"} |->
                    CASE r = "H" -> "Vitória Casa" [] r = "A" -> "Vitória Visitante"
                      [] r = "D" -> "Empate"]

\* the first season of the complete period, "2000/01" (line 77)
PeriodoInicio == <<"2", "0", "0", "0", "/", "0", "1">>

-----------------------------------------------------------------------------
(* Tables *)

NoTable == [cols |-> {}, rows |-> <<>>]

\* df[name] = f(row) for every row: a column is added or overwritten
WithColumn(t, name, f(_)) ==
    [cols |-> t.cols \cup {name},
     rows |-> [i \in 1..Len(t.rows) |->
                 [c \in t.cols \cup {name} |->
                     IF c = name THEN f(t.rows[i]) ELSE t.rows[i][c]]]]

\* df.rename(columns=ColumnMap): names outside the table are ignored, columns
\* outside the map keep their name (pandas' errors='ignore' default)
NewName(c) == IF c \in DOMAIN ColumnMap THEN ColumnMap[c] ELSE c
OldName(t, n) == CHOOSE c \in t.cols : NewName(c) = n
Rename(t) ==
    [cols |-> {NewName(c) : c \in t.cols},
     rows |-> [i \in 1..Len(t.rows) |->
                 [n \in {NewName(c) : c \in t.cols} |-> t.rows[i][OldName(t, n)]]]]

\* Series.replace(team_mapping): exact-value replacement (lines 66-67)
ReplaceTeam(name) == IF name \in DOMAIN team_mapping THEN team_mapping[name] ELSE name

\* Series.map(result_mapping): a value outside the table becomes NaN (line 62)
MapResult(code) == IF code \in DOMAIN result_mapping THEN result_mapping[code] ELSE NaS

\* Series.fillna('Desconhecido') (line 36)
FillReferee(v) == IF v = NaS THEN "Desconhecido" ELSE v

-----------------------------------------------------------------------------
(* load_data, lines 31-79 *)

Ok(t) == [err |-> "", tbl |-> t]
Raise(e) == [err |-> e, tbl |-> NoTable]

\* run the next statement group unless an exception is already propagating
Bind(r, F(_)) == IF r.err # "" THEN r ELSE F(r.tbl)

\* pd.read_csv (line 33)
ReadCsv(src) ==
    IF ~src.exists THEN Raise("FileNotFoundError")
    ELSE IF ~src.parseable THEN Raise("ParserError")
    ELSE Ok([cols |-> src.cols, rows |-> src.rows])

\* df['Referee'] = df['Referee'].fillna('Desconhecido') (line 36)
FillRefereeCell(row) == FillReferee(row["Referee"])
StageReferee(t) ==
    IF "Referee" \notin t.cols THEN Raise("KeyError")
    ELSE Ok(WithColumn(t, "Referee", FillRefereeCell))

\* df = df.rename(columns={...}) (lines 39-48)
StageRename(t) == Ok(Rename(t))

\* the derived columns (lines 51-58)
Dif_Gols(row) == CellSub(row["Gols_Time_Casa"], row["Gols_Time_Visitante"])
Total_Gols(row) == CellAdd(row["Gols_Time_Casa"], row["Gols_Time_Visitante"])
Vitoria_Casa(row) == AsInt(CellGt(row["Gols_Time_Casa"], row["Gols_Time_Visitante"]))
\* Empate with >= for ==: a home win would count as a draw too
Empate_GE(row) == AsInt(~CellLt(row["Gols_Time_Casa"], row["Gols_Time_Visitante"]))
Empate(row) == AsInt(CellEq(row["Gols_Time_Casa"], row["Gols_Time_Visitante"]))
Vitoria_Visitante(row) == AsInt(CellLt(row["Gols_Time_Casa"], row["Gols_Time_Visitante"]))
Intensidade_Ofensiva(row) == CellAdd(row["Chutes_Gol_Casa"], row["Chutes_Gol_Visitante"])
Total_Faltas(row) == CellAdd(row["Faltas_Casa"], row["Faltas_Visitante"])
Total_Vermelhos(row) == CellAdd(row["Vermelhos_Casa"], row["Vermelhos_Visitante"])

StageFeatures(t) ==
    IF ~({"Gols_Time_Casa", "Gols_Time_Visitante"} \subseteq t.cols) THEN Raise("KeyError")
    ELSE LET t1 == WithColumn(t, "Dif_Gols", Dif_Gols)
             t2 == WithColumn(t1, "Total_Gols", Total_Gols)
             t3 == WithColumn(t2, "Vitoria_Casa", Vitoria_Casa)
             t4 == WithColumn(t3, "Empate", Empate)
             t5 == WithColumn(t4, "Vitoria_Visitante", Vitoria_Visitante)
         IN  IF ~({"Chutes_Gol_Casa", "Chutes_Gol_Visitante"} \subseteq t.cols)
             THEN Raise("KeyError")
             ELSE IF ~({"Faltas_Casa", "Faltas_Visitante"} \subseteq t.cols)
             THEN Raise("KeyError")
             ELSE IF ~({"Vermelhos_Casa", "Vermelhos_Visitante"} \subseteq t.cols)
             THEN Raise("KeyError")
             ELSE Ok(WithColumn(WithColumn(WithColumn(t5,
                        "Intensidade_Ofensiva", Intensidade_Ofensiva),
                        "Total_Faltas", Total_Faltas),
                        "Total_Vermelhos", Total_Vermelhos))

\* the conversions (lines 61-62)
DataCell(row) == ParseDate(row["Data"])
Resultado_Final(row) == MapResult(row["Resultado_Final"])
StageConvert(t) ==
    IF "Data" \notin t.cols THEN Raise("KeyError")
    ELSE IF \E i \in 1..Len(t.rows) : ~DateParses(t.rows[i]["Data"]) THEN Raise("ValueError")
    ELSE IF "Resultado_Final" \notin t.cols THEN Raise("KeyError")
    ELSE Ok(WithColumn(WithColumn(t, "Data", DataCell), "Resultado_Final", Resultado_Final))

\* the team-name normalization (lines 65-67)
Time_Casa(row) == ReplaceTeam(row["Time_Casa"])
\* Time_Visitante with the alias table applied to the home column only
Time_Visitante_Raw(row) == row["Time_Visitante"]
Time_Visitante(row) == ReplaceTeam(row["Time_Visitante"])
StageTeams(t) ==
    IF "Time_Casa" \notin t.cols THEN Raise("KeyError")
    ELSE IF "Time_Visitante" \notin t.cols THEN Raise("KeyError")
    ELSE Ok(WithColumn(WithColumn(t, "Time_Casa", Time_Casa), "Time_Visitante", Time_Visitante))

\* the data-quality flags (lines 70-77)
\* Estatisticas_Completas with isnull().all for isnull().any
Estatisticas_Completas_All(row) == ~(\A c \in colunas_estatisticas : IsNull(row[c]))
Estatisticas_Completas(row) == ~(\E c \in colunas_estatisticas : IsNull(row[c]))
Periodo_Completo(row) == StrGE(row["Temporada"], PeriodoInicio)
StageFlags(t) ==
    IF ~(colunas_estatisticas \subseteq t.cols) THEN Raise("KeyError")
    ELSE IF "Temporada" \notin t.cols THEN Raise("KeyError")
    ELSE Ok(WithColumn(WithColumn(t, "Estatisticas_Completas", Estatisticas_Completas),
                       "Periodo_Completo", Periodo_Completo))

\* load_data(): the table, or the exception that leaves it (lines 32-79)
load_data(src) ==
    Bind(Bind(Bind(Bind(Bind(Bind(ReadCsv(src),
        StageReferee), StageRename), StageFeatures), StageConvert), StageTeams), StageFlags)

-----------------------------------------------------------------------------
(* Numbers the script displays *)

RECURSIVE Gcd(_, _)
Gcd(a, b) == IF b = 0 THEN a ELSE Gcd(b, a % b)

\* the quotient n / d of two non-negative numbers, d > 0, in lowest terms;
\* err names the exception that replaced the value, "" for none
Frac(n, d) == [err |-> "", num |-> n \div Gcd(n, d), den |-> d \div Gcd(n, d)]
Failed(e) == [err |-> e, num |-> 0, den |-> 1]

\* Aproveitamento with a draw worth nothing
Aproveitamento_SemEmpates(vitorias, empates, jogos) ==
    IF jogos * 3 = 0 THEN Failed("ZeroDivisionError")
    ELSE Frac((vitorias * 3) * 100, jogos * 3)

\* (vitorias * 3 + empates) / (jogos * 3) * 100 on Python ints: a zero divisor
\* raises ZeroDivisionError (lines 582, 603, 769-770, 855, 867)
Aproveitamento(vitorias, empates, jogos) ==
    IF jogos * 3 = 0 THEN Failed("ZeroDivisionError")
    ELSE Frac((vitorias * 3 + empates) * 100, jogos * 3)

\* Eficiencia without the conditional
Eficiencia_SemGuarda(gols_marcados, chutes_gol_feitos) ==
    IF chutes_gol_feitos = 0 THEN Failed("ZeroDivisionError")
    ELSE Frac(gols_marcados * 100, chutes_gol_feitos)

\* (gols_marcados / chutes_gol_feitos * 100) if chutes_gol_feitos > 0 else 0
\* (lines 656, 814)
Eficiencia(gols_marcados, chutes_gol_feitos) ==
    IF chutes_gol_feitos > 0 THEN Frac(gols_marcados * 100, chutes_gol_feitos)
    ELSE Frac(0, 1)

-----------------------------------------------------------------------------
(* Selections and aggregations over a table *)

\* df[mask]: the rows that satisfy P, in order
Filter(t, P(_)) == [cols |-> t.cols, rows |-> SelectSeq(t.rows, P)]

\* df[col].unique() as a set
Unique(t, col) == {t.rows[i][col] : i \in 1..Len(t.rows)}

RECURSIVE SumCells(_, _)
\* Series.sum(): missing cells are skipped, an empty sum is 0
SumCells(rows, col) ==
    IF rows = <<>> THEN 0
    ELSE (IF IsNull(Head(rows)[col]) THEN 0 ELSE Head(rows)[col]) + SumCells(Tail(rows), col)

SumCol(t, col) == SumCells(t.rows, col)

\* df.groupby(key)[col].sum(): one entry per value of key
GroupSum(t, key, col) ==
    [k \in Unique(t, key) |->
        SumCells(SelectSeq(t.rows, LAMBDA row : row[key] = k), col)]

\* SeriesAdd without fill_value: a key one side lacks gets a missing total
SeriesAdd_SemFill(a, b) ==
    [k \in DOMAIN a \cup DOMAIN b |->
        IF k \in DOMAIN a /\ k \in DOMAIN b THEN a[k] + b[k] ELSE NaN]

\* a.add(b, fill_value=0): the union of the two indexes, a side without the
\* key counting 0 (lines 277, 286, 295, 305, 317, 329)
SeriesAdd(a, b) ==
    [k \in DOMAIN a \cup DOMAIN b |->
        (IF k \in DOMAIN a THEN a[k] ELSE 0) + (IF k \in DOMAIN b THEN b[k] ELSE 0)]

\* the teams of a table (lines 132, 557, 723, 727)
Times(t) == Unique(t, "Time_Casa") \cup Unique(t, "Time_Visitante")

\* DfAnalise with the detailed scope selected on the statistics-complete flag
DfAnalise_Completas(tipo, t) ==
    IF tipo = "Estatísticas Detalhadas (Pós-2000)"
    THEN Filter(t, LAMBDA row : row["Estatisticas_Completas"])
    ELSE t

\* the working table of a run (lines 93-97)
DfAnalise(tipo, t) ==
    IF tipo = "Estatísticas Detalhadas (Pós-2000)"
    THEN Filter(t, LAMBDA row : row["Periodo_Completo"])
    ELSE t

\* the rows a team plays in, in either role (lines 562, 734-735, 800)
JogosDoTime(t, time) ==
    Filter(t, LAMBDA row : row["Time_Casa"] = time \/ row["Time_Visitante"] = time)

\* Vitorias without the test of the team's role
Vitorias_SemPapel(t, time) ==
    Len(SelectSeq(t.rows, LAMBDA row :
        row["Resultado_Final"] \in {"Vitória Casa", "Vitória Visitante"}))

\* the number of rows a team won in its role (lines 571-574, 595-598, 688-691,
\* 746-754, 850-853, 862-865)
Vitorias(t, time) ==
    Len(SelectSeq(t.rows, LAMBDA row :
        \/ row["Time_Casa"] = time /\ row["Resultado_Final"] = "Vitória Casa"
        \/ row["Time_Visitante"] = time /\ row["Resultado_Final"] = "Vitória Visitante"))

\* the number of drawn rows (lines 578, 603, 693, 761-762, 854, 866)
Empates(t) == Len(SelectSeq(t.rows, LAMBDA row : row["Resultado_Final"] = "Empate"))

\* the rows of one season
DaTemporada(t, temp) == Filter(t, LAMBDA row : row["Temporada"] = temp)

\* a team's sum of one column in its home rows plus another in its away rows
\* (lines 625-635, 650-654, 665-666, 802-812, 819-820)
SomaCasaFora(t, time, colCasa, colFora) ==
    SumCol(Filter(t, LAMBDA row : row["Time_Casa"] = time), colCasa)
        + SumCol(Filter(t, LAMBDA row : row["Time_Visitante"] = time), colFora)

-----------------------------------------------------------------------------
(* Source files *)

S1999 == <<"1", "9", "9", "9", "/", "0", "0">>
S2000 == <<"2", "0", "0", "0", "/", "0", "1">>
S2001 == <<"2", "0", "0", "1", "/", "0", "2">>

\* "19/08/2000", a date of the file's format
DateGood == <<"1", "9", "/", "0", "8", "/", "2", "0", "0", "0">>
\* "2000-08-19", a date of another format
DateIso == <<"2", "0", "0", "0", "-", "0", "8", "-", "1", "9">>
\* "31/02/2001", the file's format but no calendar date
DateNoDay == <<"3", "1", "/", "0", "2", "/", "2", "0", "0", "1">>

\* one CSV row over all the columns of the rename table
RawRow(date, season, home, away, hg, ag, ftr, stats, referee) ==
    [c \in RawCols |->
        CASE c = "Date" -> date [] c = "Season" -> season
          [] c = "HomeTeam" -> home [] c = "AwayTeam" -> away
          [] c = "FTH Goals" -> hg [] c = "FTA Goals" -> ag [] c = "FT Result" -> ftr
          [] c = "HTH Goals" -> 0 [] c = "HTA Goals" -> 0 [] c = "HT Result" -> "D"
          [] c = "Referee" -> referee
          [] OTHER -> stats[c]]

\* the result code that agrees with a score
CodeOf(hg, ag) == IF hg > ag THEN "H" ELSE IF hg < ag THEN "A" ELSE "D"

\* statistical cells: every field v, the fields of `missing` empty
Stats(v, missing) == [c \in RawStatCols |-> IF c \in missing THEN NaN ELSE v]

\* statistical cells with given shots on target and yellow cards, the rest 1
StatsOf(sotH, sotA, yH, yA) ==
    [c \in RawStatCols |->
        CASE c = "H SOT" -> sotH [] c = "A SOT" -> sotA
          [] c = "H Yellow" -> yH [] c = "A Yellow" -> yA [] OTHER -> 1]

\* a file that exists, parses and has the columns `cols`
File(cols, rows) ==
    [exists |-> TRUE, parseable |-> TRUE, cols |-> cols,
     rows |-> [i \in 1..Len(rows) |-> [c \in cols |-> rows[i][c]]]]

FileMissing == [exists |-> FALSE, parseable |-> FALSE, cols |-> {}, rows |-> <<>>]
FileGarbled == [exists |-> TRUE, parseable |-> FALSE, cols |-> {}, rows |-> <<>>]

\* sequences over S of length at most n
SeqsUpTo(S, n) == UNION {[1..k -> S] : k \in 0..n}

Scores == {<<1, 0>>, <<0, 0>>, <<0, 1>>}

\* fixtures of the loader specification: both alias names in both roles
LoadFixtures == {<<"Brighton", "Arsenal">>, <<"Arsenal", "Ipswich">>,
                 <<"Ipswich Town", "Brighton & Hove Albion">>}

\* rows of the loader specification: every fixture and score with complete
\* cells, in the complete period and before it; every pattern of one or all
\* statistical cells missing; a row for each other defect a cell can have
LoadRows ==
    {RawRow(DateGood, S2000, f[1], f[2], g[1], g[2], CodeOf(g[1], g[2]), Stats(1, {}), "M Dean") :
        f \in LoadFixtures, g \in Scores}
    \cup {RawRow(DateGood, S1999, "Brighton", "Arsenal", 0, 1, "A", Stats(1, {}), "M Dean"),
          RawRow(DateGood, S1999, "Arsenal", "Ipswich", 1, 0, "H", Stats(1, RawStatCols), NaS)}
    \cup {RawRow(DateGood, S2000, "Arsenal", "Ipswich", 1, 0, "H", Stats(1, {c}), "M Dean") :
        c \in RawStatCols}
    \cup {RawRow(NaT, S2000, "Arsenal", "Ipswich", 0, 0, "D", Stats(0, {}), "M Dean"),
          RawRow(DateIso, S2000, "Arsenal", "Ipswich", 0, 0, "D", Stats(1, {}), "M Dean"),
          RawRow(DateNoDay, S2000, "Arsenal", "Ipswich", 0, 0, "D", Stats(1, {}), "M Dean"),
          RawRow(DateGood, S2000, "Arsenal", "Ipswich", 1, 0, "X", Stats(1, {}), "M Dean")}

\* files of the loader specification: absent, unparseable, every sequence of
\* rows with all the columns, and a one-row file without each single column
LoadSources ==
    {FileMissing, FileGarbled}
    \cup {File(RawCols, rows) : rows \in SeqsUpTo(LoadRows, MaxLoadRows)}
    \cup {File(RawCols \ {c},
               <<RawRow(DateGood, S2000, "Arsenal", "Ipswich", 1, 0, "H", Stats(1, {}), "M Dean")>>) :
            c \in RawCols}

\* rows of the dashboard specification: the three teams under their old and
\* new names in both roles, the three results, seasons before and in the
\* complete period, statistical cells complete, partly missing and all missing,
\* and a goal without a shot on target
AppRows ==
    {RawRow(DateGood, S1999, "Brighton", "Arsenal", 1, 0, "H", Stats(1, RawStatCols), NaS),
     RawRow(DateGood, S2000, "Brighton & Hove Albion", "Arsenal", 0, 1, "A",
            StatsOf(0, 1, 1, 0), "M Dean"),
     RawRow(DateGood, S2000, "Ipswich", "Brighton & Hove Albion", 1, 0, "H",
            StatsOf(0, 0, 0, 0), "M Dean"),
     RawRow(DateGood, S2000, "Arsenal", "Ipswich", 0, 0, "D", Stats(1, {"A SOT"}), "M Dean"),
     RawRow(DateGood, S2000, "Arsenal", "Brighton", 1, 0, "H", StatsOf(1, 0, 0, 1), "M Dean"),
     RawRow(DateGood, S2001, "Ipswich Town", "Arsenal", 1, 0, "H", StatsOf(1, 1, 0, 0), "M Dean"),
     RawRow(DateGood, S2001, "Brighton & Hove Albion", "Arsenal", 0, 0, "D",
            StatsOf(1, 1, 0, 1), "M Dean")}

\* files of the dashboard specification: every sequence of rows, and no file
AppSources ==
    {FileMissing} \cup {File(RawCols, rows) : rows \in SeqsUpTo(AppRows, MaxRows)}

\* the first season of the history, 1993/94 (line 98)
PrimeiroAno == 1993

DigitChar(n) == CHOOSE c \in Digits : DigitVal(c) = n

\* the zero-padded "YYYY/YY" label of the season that starts in a year
SeasonLabel(y) ==
    <<DigitChar(y \div 1000), DigitChar((y \div 100) % 10), DigitChar((y \div 10) % 10),
      DigitChar(y % 10), "/", DigitChar(((y + 1) \div 10) % 10), DigitChar((y + 1) % 10)>>

\* season labels of the season-order specification
SeasonLabels == {SeasonLabel(y) : y \in PrimeiroAno..(PrimeiroAno + MaxSeasons - 1)}

\* rows of the champion specification: two seasons of the complete period and
\* one before it, home sides with and without a home win, two home sides level
\* on home wins in a season
TestesRows ==
    {RawRow(DateGood, S2000, "Ipswich Town", "Arsenal", 1, 0, "H", Stats(1, {}), "M Dean"),
     RawRow(DateGood, S2000, "Arsenal", "Brighton", 1, 0, "H", Stats(1, {}), "M Dean"),
     RawRow(DateGood, S2000, "Brighton & Hove Albion", "Arsenal", 0, 0, "D", Stats(1, {}), "M Dean"),
     RawRow(DateGood, S2001, "Arsenal", "Ipswich Town", 1, 0, "H", Stats(1, {}), "M Dean"),
     RawRow(DateGood, S2001, "Ipswich", "Brighton & Hove Albion", 0, 1, "A", Stats(1, {}), "M Dean"),
     RawRow(DateGood, S1999, "Brighton & Hove Albion", "Ipswich", 1, 0, "H",
            Stats(1, RawStatCols), NaS)}

\* files of the champion specification
TestesSources == {File(RawCols, rows) : rows \in SeqsUpTo(TestesRows, MaxTestesRows)}

-----------------------------------------------------------------------------
(* The script *)

\* the sidebar's radio options (lines 22-28 and 87-90)
Paginas == {"Visão Geral", "Análise Exploratória", "Testes de Hipótese",
            "Análise por Time", "Comparação entre Times"}
Historica == "Análise Histórica Completa"
Detalhada == "Estatísticas Detalhadas (Pós-2000)"

NoOut == [page |-> "none"]
NoCalc == [f |-> "none"]

\* FileAfterLoad with the normalized table saved over the file
FileAfterLoad_WriteBack(src, r) ==
    IF r.err = "" THEN [src EXCEPT !.cols = r.tbl.cols, !.rows = r.tbl.rows] ELSE src

\* a selectbox over no options returns None
NoneTime == "None"
NoneTemporada == <<>>

\* the rank of a team name in Python's string order
TimeRank(name) ==
    CASE name = "Arsenal" -> 1 [] name = "Brighton" -> 2
      [] name = "Brighton & Hove Albion" -> 3 [] name = "Ipswich" -> 4
      [] name = "Ipswich Town" -> 5 [] OTHER -> 6

\* Pagina 1, Visao Geral (lines 117-173): the four metrics
VisaoGeral(t) ==
    [page |-> "Visão Geral",
     total_jogos |-> Len(t.rows),
     temporadas |-> Cardinality(Unique(t, "Temporada")),
     times_unicos |-> Cardinality(Times(t)),
     resultados |-> [r \in Unique(t, "Resultado_Final") |->
                        Len(SelectSeq(t.rows, LAMBDA row : row["Resultado_Final"] = r))],
     gols_casa |-> SumCol(t, "Gols_Time_Casa"),
     gols_visitante |-> SumCol(t, "Gols_Time_Visitante")]

\* the metrics offered by the exploratory page (lines 190-194)
MetricasOpcoes(tipo) ==
    IF tipo = "Estatísticas Detalhadas (Pós-2000)"
    THEN {"Gols", "Cartões Amarelos", "Cartões Vermelhos", "Faltas", "Chutes a Gol", "Escanteios"}
    ELSE {"Gols", "Cartões Amarelos", "Cartões Vermelhos", "Faltas"}

\* the home and away columns a metric sums per team (lines 274-335)
ColunasDaMetrica(metricas) ==
    CASE metricas = "Gols" -> <<"Gols_Time_Casa", "Gols_Time_Visitante">>
      [] metricas = "Cartões Amarelos" -> <<"Amarelos_Casa", "Amarelos_Visitante">>
      [] metricas = "Cartões Vermelhos" -> <<"Vermelhos_Casa", "Vermelhos_Visitante">>
      [] metricas = "Faltas" -> <<"Faltas_Casa", "Faltas_Visitante">>
      [] metricas = "Chutes a Gol" -> <<"Chutes_Gol_Casa", "Chutes_Gol_Visitante">>
      [] metricas = "Escanteios" -> <<"Escanteios_Casa", "Escanteios_Visitante">>

\* df_filtrado (line 199); a comparison with None selects no row
DfFiltrado(t, temporada_min) ==
    Filter(t, LAMBDA row : temporada_min # NoneTemporada /\ StrGE(row["Temporada"], temporada_min))

\* the per-team totals of the "Top Times" tab: the home sums plus the away sums
\* (lines 275-277 and the like); the model has fewer than 15 teams, so head(15)
\* keeps them all
TotaisPorTime(t, colCasa, colFora) ==
    SeriesAdd(GroupSum(t, "Time_Casa", colCasa), GroupSum(t, "Time_Visitante", colFora))

\* whether the page shows the "dados nao disponiveis" error instead of the
\* chart: the metric's home column is all missing (lines 302, 314, 326)
MetricaIndisponivel(t, metricas) ==
    /\ metricas \in {"Faltas", "Chutes a Gol", "Escanteios"}
    /\ \A i \in 1..Len(t.rows) : IsNull(t.rows[i][ColunasDaMetrica(metricas)[1]])

\* Pagina 2, Analise Exploratoria (lines 176-377)
Exploratoria(t, temporada_min, metricas) ==
    LET f == DfFiltrado(t, temporada_min)
    IN  [page |-> "Análise Exploratória",
         temporadas |-> Unique(f, "Temporada"),
         jogos |-> Len(f.rows),
         indisponivel |-> MetricaIndisponivel(f, metricas),
         totais |-> IF MetricaIndisponivel(f, metricas) THEN <<>>
                    ELSE TotaisPorTime(f, ColunasDaMetrica(metricas)[1],
                                       ColunasDaMetrica(metricas)[2])]

\* the home wins of a team in a season: one entry of
\* groupby(['Temporada', 'Time_Casa'])['Vitoria_Casa'].sum() (line 400)
VitoriasEmCasa(t, temp, time) ==
    SumCells(SelectSeq(t.rows, LAMBDA row : row["Temporada"] = temp /\ row["Time_Casa"] = time),
             "Vitoria_Casa")

\* the home teams of a season
MandantesDa(t, temp) == Unique(DaTemporada(t, temp), "Time_Casa")

\* ChampionOf with the sums sorted ascending
ChampionOf_Ascending(t, temp) ==
    CHOOSE time \in MandantesDa(t, temp) :
        \A outro \in MandantesDa(t, temp) :
            \/ VitoriasEmCasa(t, temp, time) < VitoriasEmCasa(t, temp, outro)
            \/ /\ VitoriasEmCasa(t, temp, time) = VitoriasEmCasa(t, temp, outro)
               /\ TimeRank(time) <= TimeRank(outro)

\* the first row of a season (groupby('Temporada').head(1)) after
\* sort_values(['Temporada', 'Vitoria_Casa'], ascending=[True, False]) (lines
\* 401-402): the largest sum; the sort is stable, so equal sums stay in the
\* order groupby left them, which is the order of the names
ChampionOf(t, temp) ==
    CHOOSE time \in MandantesDa(t, temp) :
        \A outro \in MandantesDa(t, temp) :
            \/ VitoriasEmCasa(t, temp, time) > VitoriasEmCasa(t, temp, outro)
            \/ /\ VitoriasEmCasa(t, temp, time) = VitoriasEmCasa(t, temp, outro)
               /\ TimeRank(time) <= TimeRank(outro)

\* champions['Time_Casa'] (lines 400-402)
Champions(t) == {ChampionOf(t, temp) : temp \in Unique(t, "Temporada")}

\* DfAnaliseIsCopy with line 97 as df_analise = df
DfAnaliseIsCopy_Alias(tipo) == tipo = "Estatísticas Detalhadas (Pós-2000)"

\* whether df_analise is an object of its own: both branches end in .copy()
\* (lines 94 and 97)
DfAnaliseIsCopy(tipo) == TRUE

\* TestesTabela with a row flagged only for its own season's champion
TestesTabela_DaTemporada(t) ==
    [cols |-> t.cols \cup {"Campeao"},
     rows |-> [i \in 1..Len(t.rows) |->
                 [c \in t.cols \cup {"Campeao"} |->
                     IF c = "Campeao"
                     THEN t.rows[i]["Time_Casa"] = ChampionOf(t, t.rows[i]["Temporada"])
                     ELSE t.rows[i][c]]]]

\* Pagina 3, Testes de Hipotese (lines 380-547): the table with the column
\* Campeao the page adds (line 403) and the samples of the tests
TestesTabela(t) ==
    [cols |-> t.cols \cup {"Campeao"},
     rows |-> [i \in 1..Len(t.rows) |->
                 [c \in t.cols \cup {"Campeao"} |->
                     IF c = "Campeao" THEN t.rows[i]["Time_Casa"] \in Champions(t)
                     ELSE t.rows[i][c]]]]

\* pearsonr raises ValueError on fewer than two points and ends the run,
\* after the tabs before it were rendered (line 507)
Testes(t, tipo) ==
    LET tc == TestesTabela(t)
    IN  [page |-> "Testes de Hipótese",
         err |-> IF tipo # "Análise Histórica Completa" /\ Len(t.rows) < 2
                 THEN "ValueError" ELSE "",
         champions |-> Champions(t),
         campeao_da |-> [temp \in Unique(t, "Temporada") |-> ChampionOf(t, temp)],
         n_campeoes |-> Len(SelectSeq(tc.rows, LAMBDA row : row["Campeao"])),
         n_outros |-> Len(SelectSeq(tc.rows, LAMBDA row : ~row["Campeao"])),
         vitorias_casa |-> SumCol(t, "Vitoria_Casa"),
         vitorias_visitante |-> SumCol(t, "Vitoria_Visitante"),
         correlacao |-> tipo # "Análise Histórica Completa",
         correlacao_linhas |-> IF tipo = "Análise Histórica Completa" THEN <<>> ELSE t.rows]

\* one entry of performance_data (lines 593-604) or of evolucao_data (lines
\* 846-869): a team's season
DesempenhoNaTemporada(jogos_time, time, temp) ==
    LET jogos_temp == DaTemporada(jogos_time, temp)
    IN  [Vitorias |-> Vitorias(jogos_temp, time),
         Jogos |-> Len(jogos_temp.rows),
         Aproveitamento |-> Aproveitamento(Vitorias(jogos_temp, time), Empates(jogos_temp),
                                           Len(jogos_temp.rows))]

\* Confrontos with the second disjunct left out
Confrontos_UmSentido(t, time, adversario) ==
    Filter(t, LAMBDA row : row["Time_Casa"] = time /\ row["Time_Visitante"] = adversario)

\* confrontos (lines 682-685)
Confrontos(t, time, adversario) ==
    Filter(t, LAMBDA row :
        \/ row["Time_Casa"] = time /\ row["Time_Visitante"] = adversario
        \/ row["Time_Casa"] = adversario /\ row["Time_Visitante"] = time)

\* ConfrontosDiretos without the len(confrontos) > 0 branch
ConfrontosDiretos_SemGuarda(t, time, adversario) ==
    IF adversario = NoneTime THEN [mostra |-> "nada"]
    ELSE LET c == Confrontos(t, time, adversario)
         IN  [mostra |-> "metricas",
              confrontos |-> c.rows,
              vitorias_time |-> Vitorias(c, time),
              empates |-> Empates(c),
              vitorias_adversario |-> Len(c.rows) - Vitorias(c, time) - Empates(c)]

\* ConfrontosDiretos with the draws left out of the subtraction
ConfrontosDiretos_SemEmpates(t, time, adversario) ==
    IF adversario = NoneTime THEN [mostra |-> "nada"]
    ELSE LET c == Confrontos(t, time, adversario)
         IN  IF Len(c.rows) > 0
             THEN [mostra |-> "metricas",
                   confrontos |-> c.rows,
                   vitorias_time |-> Vitorias(c, time),
                   empates |-> Empates(c),
                   vitorias_adversario |-> Len(c.rows) - Vitorias(c, time)]
             ELSE [mostra |-> "info", confrontos |-> c.rows]

\* the "Confrontos Diretos" tab (lines 674-710)
ConfrontosDiretos(t, time, adversario) ==
    IF adversario = NoneTime THEN [mostra |-> "nada"]
    ELSE LET c == Confrontos(t, time, adversario)
         IN  IF Len(c.rows) > 0
             THEN [mostra |-> "metricas",
                   confrontos |-> c.rows,
                   vitorias_time |-> Vitorias(c, time),
                   empates |-> Empates(c),
                   vitorias_adversario |-> Len(c.rows) - Vitorias(c, time) - Empates(c)]
             ELSE [mostra |-> "info", confrontos |-> c.rows]

\* calcular_estatisticas_avancadas (lines 799-821) and the same statements of
\* the team page (lines 650-666)
calcular_estatisticas_avancadas(time, t) ==
    LET jogos_time == JogosDoTime(t, time)
        gols_marcados == SomaCasaFora(jogos_time, time, "Gols_Time_Casa", "Gols_Time_Visitante")
        chutes_gol_feitos ==
            SomaCasaFora(jogos_time, time, "Chutes_Gol_Casa", "Chutes_Gol_Visitante")
    IN  [eficiencia |-> Eficiencia(gols_marcados, chutes_gol_feitos),
         chutes_gol_feitos |-> chutes_gol_feitos,
         amarelos |-> SomaCasaFora(jogos_time, time, "Amarelos_Casa", "Amarelos_Visitante")]

NoStats == [eficiencia |-> Frac(0, 1), chutes_gol_feitos |-> 0, amarelos |-> 0]

\* Pagina 4, Analise por Time (lines 550-710); an exception ends the run where
\* it is raised, err names it; stats_linhas are the rows the detailed
\* statistics are summed over
AnaliseTime(t, tipo, time, adversario) ==
    IF time = NoneTime THEN [page |-> "Análise por Time", err |-> "", mostra |-> FALSE]
    ELSE
    LET jogos_time == JogosDoTime(t, time)
        vitorias == Vitorias(jogos_time, time)
        empates == Empates(jogos_time)
        aproveitamento == Aproveitamento(vitorias, empates, Len(jogos_time.rows))
        performance_data ==
            [temp \in Unique(jogos_time, "Temporada") |->
                DesempenhoNaTemporada(jogos_time, time, temp)]
        detalhado == tipo = "Estatísticas Detalhadas (Pós-2000)"
    IN  IF aproveitamento.err # ""
        THEN [page |-> "Análise por Time", err |-> aproveitamento.err, mostra |-> TRUE]
        ELSE IF \E temp \in DOMAIN performance_data :
                    performance_data[temp].Aproveitamento.err # ""
        THEN [page |-> "Análise por Time", err |-> "ZeroDivisionError", mostra |-> TRUE]
        ELSE [page |-> "Análise por Time", err |-> "", mostra |-> TRUE,
              jogos |-> Len(jogos_time.rows),
              vitorias |-> vitorias,
              empates |-> empates,
              aproveitamento |-> aproveitamento,
              performance_data |-> performance_data,
              gols_marcados |-> SomaCasaFora(jogos_time, time,
                                             "Gols_Time_Casa", "Gols_Time_Visitante"),
              gols_sofridos |-> SomaCasaFora(jogos_time, time,
                                             "Gols_Time_Visitante", "Gols_Time_Casa"),
              detalhado |-> detalhado,
              stats |-> IF detalhado THEN calcular_estatisticas_avancadas(time, jogos_time)
                        ELSE NoStats,
              stats_linhas |-> IF detalhado THEN jogos_time.rows ELSE <<>>,
              confrontos |-> ConfrontosDiretos(t, time, adversario)]

\* one side of the comparison page (lines 734-770)
LadoDaComparacao(t, time) ==
    LET jogos_time == JogosDoTime(t, time)
    IN  [jogos |-> Len(jogos_time.rows),
         vitorias |-> Vitorias(jogos_time, time),
         empates |-> Empates(jogos_time),
         aproveitamento |-> Aproveitamento(Vitorias(jogos_time, time), Empates(jogos_time),
                                           Len(jogos_time.rows))]

\* Evolucao without the len(jogos_temp) > 0 tests
Evolucao_SemGuarda(t, time) ==
    LET jogos_time == JogosDoTime(t, time)
    IN  [temp \in Unique(t, "Temporada") |->
            DesempenhoNaTemporada(jogos_time, time, temp).Aproveitamento]

\* evolucao_data for one team (lines 846-869): the seasons of the working table
\* in which the team has a row
Evolucao(t, time) ==
    LET jogos_time == JogosDoTime(t, time)
    IN  [temp \in {s \in Unique(t, "Temporada") : Len(DaTemporada(jogos_time, s).rows) > 0} |->
            DesempenhoNaTemporada(jogos_time, time, temp).Aproveitamento]

\* Pagina 5, Comparacao entre Times (lines 713-883)
Comparacao(t, tipo, time1, time2) ==
    IF time1 = NoneTime \/ time2 = NoneTime
    THEN [page |-> "Comparação entre Times", err |-> "", mostra |-> FALSE]
    ELSE
    LET lado1 == LadoDaComparacao(t, time1)
        lado2 == LadoDaComparacao(t, time2)
        detalhado == tipo = "Estatísticas Detalhadas (Pós-2000)"
    IN  IF lado1.aproveitamento.err # "" \/ lado2.aproveitamento.err # ""
        THEN [page |-> "Comparação entre Times", err |-> "ZeroDivisionError", mostra |-> TRUE]
        ELSE [page |-> "Comparação entre Times", err |-> "", mostra |-> TRUE,
              lado1 |-> lado1,
              lado2 |-> lado2,
              detalhado |-> detalhado,
              stats_time1 |-> IF detalhado THEN calcular_estatisticas_avancadas(time1, t)
                              ELSE NoStats,
              stats_time2 |-> IF detalhado THEN calcular_estatisticas_avancadas(time2, t)
                              ELSE NoStats,
              stats_linhas1 |-> IF detalhado THEN JogosDoTime(t, time1).rows ELSE <<>>,
              stats_linhas2 |-> IF detalhado THEN JogosDoTime(t, time2).rows ELSE <<>>,
              evolucao1 |-> Evolucao(t, time1),
              evolucao2 |-> Evolucao(t, time2)]

\* the file after load_data ran: read_csv only reads it (line 33)
FileAfterLoad(src, r) == src

\* the seasons with partial statistics (line 103)
temporadas_incompletas ==
    {<<"1", "9", "9", "3", "/", "9", "4">>, <<"1", "9", "9", "4", "/", "9", "5">>,
     <<"1", "9", "9", "5", "/", "9", "6">>, <<"1", "9", "9", "6", "/", "9", "7">>,
     <<"1", "9", "9", "7", "/", "9", "8">>, <<"1", "9", "9", "8", "/", "9", "9">>,
     <<"1", "9", "9", "9", "/", "0", "0">>}

\* alerta_qualidade_dados with 2000/01 counted among the partial seasons
alerta_qualidade_dados_Ate2000(df_utilizado) ==
    \E temp \in Unique(df_utilizado, "Temporada") :
        temp \in temporadas_incompletas \cup {<<"2", "0", "0", "0", "/", "0", "1">>}

\* alerta_qualidade_dados (lines 101-114): whether the warning is shown
alerta_qualidade_dados(df_utilizado) ==
    \E temp \in Unique(df_utilizado, "Temporada") : temp \in temporadas_incompletas

\* a page's output with the warning every page starts with (lines 121, 180,
\* 384, 554, 717)
ComAlerta(df_utilizado, o) == [alerta |-> alerta_qualidade_dados(df_utilizado)] @@ o

\* what one run of the script leaves: the table df, the working table and the
\* page's output (lines 81-98 and the page's branch).  Only the hypothesis-test
\* page writes to a table, df_analise; the write reaches df when df_analise is
\* df itself
Render(t, pg, tipo, s) ==
    LET base == DfAnalise(tipo, t)
    IN  CASE pg = "Visão Geral" ->
               [df |-> t, df_analise |-> base, out |-> ComAlerta(base, VisaoGeral(base))]
          [] pg = "Análise Exploratória" ->
               [df |-> t, df_analise |-> base,
                out |-> ComAlerta(base, Exploratoria(base, s.temporada_min, s.metricas))]
          [] pg = "Testes de Hipótese" ->
               [df |-> IF DfAnaliseIsCopy(tipo) THEN t ELSE TestesTabela(t),
                df_analise |-> TestesTabela(base), out |-> ComAlerta(base, Testes(base, tipo))]
          [] pg = "Análise por Time" ->
               [df |-> t, df_analise |-> base,
                out |-> ComAlerta(base, AnaliseTime(base, tipo, s.time_selecionado, s.adversarios))]
          [] pg = "Comparação entre Times" ->
               [df |-> t, df_analise |-> base,
                out |-> ComAlerta(base, Comparacao(base, tipo, s.time1, s.time2))]

\* what a selectbox can return: one of its options, None when it has none
Opcoes(S, none) == IF S = {} THEN {none} ELSE S

\* the selectbox values a run of a page can see (lines 186-196, 557-558,
\* 678-679, 722-728)
Selecoes(t, pg, tipo) ==
    LET base == DfAnalise(tipo, t)
    IN  CASE pg = "Análise Exploratória" ->
               {[page |-> pg, temporada_min |-> m, metricas |-> k] :
                   m \in Opcoes(Unique(base, "Temporada"), NoneTemporada),
                   k \in MetricasOpcoes(tipo)}
          [] pg = "Análise por Time" ->
               UNION {{[page |-> pg, time_selecionado |-> a, adversarios |-> b] :
                          b \in Opcoes(Times(base) \ {a}, NoneTime)} :
                      a \in Opcoes(Times(base), NoneTime)}
          [] pg = "Comparação entre Times" ->
               UNION {{[page |-> pg, time1 |-> a, time2 |-> b] :
                          b \in Opcoes(Times(base) \ {a}, NoneTime)} :
                      a \in Opcoes(Times(base), NoneTime)}
          [] OTHER -> {[page |-> pg]}

\* a run that executes load_data (lines 31-81): an exception ends the run,
\* leaving df unbound; otherwise the table is cached and the page is rendered
\* with the widgets' values, a selectbox whose value is no longer an option
\* taking another
LoadAndRender ==
    \E r \in {load_data(source)} :
        /\ source' = FileAfterLoad(source, r)
        /\ reloaded' = (status # "start")
        /\ UNCHANGED <<pagina, analise_tipo, calc>>
        /\ IF r.err # ""
           THEN /\ status' = r.err
                /\ cache' = NoTable
                /\ df' = NoTable
                /\ UNCHANGED <<df_analise, sel, out>>
           ELSE /\ status' = "ok"
                /\ cache' = r.tbl
                /\ \E s \in Selecoes(r.tbl, pagina, analise_tipo) :
                      /\ sel \in Selecoes(r.tbl, pagina, analise_tipo) => s = sel
                      /\ sel' = s
                      /\ \E run \in {Render(r.tbl, pagina, analise_tipo, s)} :
                            /\ df' = run.df
                            /\ df_analise' = run.df_analise
                            /\ out' = run.out

\* the first run of the script
FirstRun == status = "start" /\ LoadAndRender

\* a rerun after a failed load: st.cache_data keeps no exception, load_data is
\* executed again
RetryRun == status \notin {"start", "ok"} /\ LoadAndRender

\* a rerun after the cache was cleared (a restart, the "Clear cache" menu):
\* load_data is executed again on the same file
ReloadRun == status = "ok" /\ LoadAndRender

\* a rerun on a widget change: load_data returns a copy of the cached table
\* (line 81) and the chosen page is rendered
Rerun(pg, tipo, s) ==
    /\ status = "ok"
    /\ pagina' = pg
    /\ analise_tipo' = tipo
    /\ sel' = s
    /\ \E run \in {Render(cache, pg, tipo, s)} :
          /\ df' = run.df
          /\ df_analise' = run.df_analise
          /\ out' = run.out
    /\ UNCHANGED <<source, status, reloaded, cache, calc>>

Tipos == {Historica, Detalhada}

SelectVisaoGeral ==
    \E tipo \in Tipos : Rerun("Visão Geral", tipo, [page |-> "Visão Geral"])

SelectExploratoria ==
    \E tipo \in Tipos : \E s \in Selecoes(cache, "Análise Exploratória", tipo) :
        Rerun("Análise Exploratória", tipo, s)

SelectTestes ==
    \E tipo \in Tipos : Rerun("Testes de Hipótese", tipo, [page |-> "Testes de Hipótese"])

SelectTime ==
    \E tipo \in Tipos : \E s \in Selecoes(cache, "Análise por Time", tipo) :
        Rerun("Análise por Time", tipo, s)

SelectComparacao ==
    \E tipo \in Tipos : \E s \in Selecoes(cache, "Comparação entre Times", tipo) :
        Rerun("Comparação entre Times", tipo, s)

\* the season comparisons evaluated on their own inputs: Temporada >=
\* temporada_min (line 199) and the flag of line 77
EvalCompare ==
    /\ calc.f = "labels"
    /\ calc' = [calc EXCEPT !.f = "compare",
                            !.r = [ge |-> StrGE(calc.a, calc.b),
                                   periodo |-> Periodo_Completo([Temporada |-> calc.a])]]
    /\ UNCHANGED <<source, status, reloaded, cache, df, pagina, analise_tipo, df_analise, sel, out>>

\* sorted() evaluated on a set of season labels (lines 186, 594, 846)
EvalSorted ==
    /\ calc.f = "labels"
    /\ calc' = [calc EXCEPT !.f = "sorted", !.r = Sorted({calc.a, calc.b, calc.c})]
    /\ UNCHANGED <<source, status, reloaded, cache, df, pagina, analise_tipo, df_analise, sel, out>>

\* a scalar formula evaluated on its own inputs
EvalAproveitamento ==
    /\ calc.f = "input"
    /\ calc' = [calc EXCEPT !.f = "aproveitamento", !.r = Aproveitamento(calc.a, calc.b, calc.c)]
    /\ UNCHANGED <<source, status, reloaded, cache, df, pagina, analise_tipo, df_analise, sel, out>>

EvalEficiencia ==
    /\ calc.f = "input"
    /\ calc' = [calc EXCEPT !.f = "eficiencia", !.r = Eficiencia(calc.a, calc.c)]
    /\ UNCHANGED <<source, status, reloaded, cache, df, pagina, analise_tipo, df_analise, sel, out>>

InitRest ==
    /\ status = "start"
    /\ reloaded = FALSE
    /\ cache = NoTable
    /\ df = NoTable
    /\ pagina = "Visão Geral"
    /\ analise_tipo = Historica
    /\ df_analise = NoTable
    /\ sel = [page |-> "Visão Geral"]
    /\ out = NoOut

InitLoad == source \in LoadSources /\ InitRest /\ calc = NoCalc

NextLoad == FirstRun \/ RetryRun \/ ReloadRun

\* the loader on its own, over the files of LoadSources
SpecLoad == InitLoad /\ [][NextLoad]_vars

Init == source \in AppSources /\ InitRest /\ calc = NoCalc

Next ==
    \/ FirstRun
    \/ RetryRun
    \/ ReloadRun
    \/ SelectVisaoGeral
    \/ SelectExploratoria
    \/ SelectTestes
    \/ SelectTime
    \/ SelectComparacao

\* the dashboard, over the files of AppSources
Spec == Init /\ [][Next]_vars

InitTestes == source \in TestesSources /\ InitRest /\ calc = NoCalc

NextTestes == FirstRun \/ SelectTestes

\* the hypothesis-test page on its own, over the files of TestesSources
SpecTestes == InitTestes /\ [][NextTestes]_vars

InitSeason ==
    /\ source = FileMissing
    /\ InitRest
    /\ calc \in {[f |-> "labels", a |-> a, b |-> b, c |-> c, r |-> <<>>] :
                    a \in SeasonLabels, b \in SeasonLabels, c \in SeasonLabels}

NextSeason == EvalCompare \/ EvalSorted

\* the season-label comparisons on their own
SpecSeason == InitSeason /\ [][NextSeason]_vars

\* the inputs of the scalar formulas: a, b, c are wins, draws and games for the
\* performance percentage, and a, c are goals and shots on target for the
\* efficiency
InitCalc ==
    /\ source = FileMissing
    /\ InitRest
    /\ calc \in {[f |-> "input", a |-> a, b |-> b, c |-> c, r |-> Frac(0, 1)] :
                    a \in 0..MaxGames, b \in 0..MaxGames, c \in 0..MaxGames}

NextCalc == EvalAproveitamento \/ EvalEficiencia

\* the scalar formulas on their own
SpecCalc == InitCalc /\ [][NextCalc]_vars

-----------------------------------------------------------------------------
(* Claims about the loader *)

\* the columns of the normalized table: the renamed ones and the derived ones
FullColumns ==
    {ColumnMap[c] : c \in RawCols}
    \cup {"Dif_Gols", "Total_Gols", "Vitoria_Casa", "Empate", "Vitoria_Visitante",
          "Intensidade_Ofensiva", "Total_Faltas", "Total_Vermelhos",
          "Estatisticas_Completas", "Periodo_Completo"}

\* a file that is missing, malformed (unparseable as a whole, or holding a date
\* that is no day/month/year date or a result code outside H, A, D), or without
\* a field of the rename table
SourceDefective(src) ==
    \/ ~src.exists
    \/ ~src.parseable
    \/ ~(RawCols \subseteq src.cols)
    \/ \E i \in 1..Len(src.rows) : "Date" \in src.cols /\ ~DateParses(src.rows[i]["Date"])
    \/ \E i \in 1..Len(src.rows) :
          "FT Result" \in src.cols /\ src.rows[i]["FT Result"] \notin {"H", "A", "D"}

\* C1: load_data either returns the fully normalized table or fails: a missing
\* or malformed file, or one lacking a required column, ends the load in an
\* error with no table returned, and any other file gives the full table.
C1_LoadFailsOrReturnsFullTable ==
    status # "start" =>
        IF SourceDefective(source)
        THEN status # "ok" /\ df = NoTable
        ELSE status = "ok" /\ df.cols = FullColumns /\ Len(df.rows) = Len(source.rows)

\* C2: in every row of the loaded table exactly one of Vitoria_Casa, Empate,
\* Vitoria_Visitante is 1 and it is the one the sign of Dif_Gols names.
C2_ExactlyOneResultFlag ==
    status = "ok" =>
        \A i \in 1..Len(df.rows) :
            LET r == df.rows[i]
            IN  /\ {r["Vitoria_Casa"], r["Empate"], r["Vitoria_Visitante"]} \subseteq {0, 1}
                /\ r["Vitoria_Casa"] + r["Empate"] + r["Vitoria_Visitante"] = 1
                /\ r["Vitoria_Casa"] = 1 <=> r["Dif_Gols"] > 0
                /\ r["Empate"] = 1 <=> r["Dif_Gols"] = 0
                /\ r["Vitoria_Visitante"] = 1 <=> r["Dif_Gols"] < 0
                /\ r["Dif_Gols"] = source.rows[i]["FTH Goals"] - source.rows[i]["FTA Goals"]

\* C2's case: a loaded table with a home win and an away win
C2_Witness ==
    /\ status = "ok"
    /\ \E i, j \in 1..Len(df.rows) :
          df.rows[i]["Vitoria_Casa"] = 1 /\ df.rows[j]["Vitoria_Visitante"] = 1

\* the 12 optional statistical fields as the file names them
OptionalFields ==
    {"H Shots", "A Shots", "H SOT", "A SOT", "H Fouls", "A Fouls",
     "H Corners", "A Corners", "H Yellow", "A Yellow", "H Red", "A Red"}

\* C3: a row's Estatisticas_Completas is true iff none of the 12 optional
\* statistical cells of that row is missing in the file, and two rows with the
\* same 12 cells have the same flag whatever their other fields.
C3_CompleteIffNoStatMissing ==
    status = "ok" =>
        /\ \A i \in 1..Len(df.rows) :
              df.rows[i]["Estatisticas_Completas"]
                  <=> \A c \in OptionalFields : source.rows[i][c] # NaN
        /\ \A i, j \in 1..Len(df.rows) :
              (\A c \in OptionalFields : source.rows[i][c] = source.rows[j][c])
                  => df.rows[i]["Estatisticas_Completas"] = df.rows[j]["Estatisticas_Completas"]

\* C3's case: a complete row and a row with exactly one statistical cell
\* missing, in different seasons
C3_Witness ==
    /\ status = "ok"
    /\ \E i, j \in 1..Len(df.rows) :
          /\ df.rows[i]["Estatisticas_Completas"]
          /\ ~df.rows[j]["Estatisticas_Completas"]
          /\ Cardinality({c \in OptionalFields : source.rows[j][c] = NaN}) = 1
          /\ df.rows[i]["Temporada"] # df.rows[j]["Temporada"]

-----------------------------------------------------------------------------
(* Claims about the dashboard *)

\* the indexes of the file's rows in which a raw name holds a role
LinhasDe(src, col, name) == {i \in 1..Len(src.rows) : src.rows[i][col] = name}

RECURSIVE SomaDe(_, _, _)
\* the sum of a raw field over a set of the file's rows
SomaDe(src, I, col) ==
    IF I = {} THEN 0
    ELSE LET i == CHOOSE j \in I : TRUE
         IN  src.rows[i][col] + SomaDe(src, I \ {i}, col)

\* the goals of a raw name in the file, both roles
GolsNoArquivo(src, name) ==
    SomaDe(src, LinhasDe(src, "HomeTeam", name), "FTH Goals")
        + SomaDe(src, LinhasDe(src, "AwayTeam", name), "FTA Goals")

\* the rows of the file a raw name plays in
JogosNoArquivo(src, name) ==
    LinhasDe(src, "HomeTeam", name) \cup LinhasDe(src, "AwayTeam", name)

\* C4: after the load no pre-alias name is left in either team column, and the
\* per-team goal totals of the loaded table (and of the "Top Times" chart over
\* the whole table) give an aliased team the sum of the file's totals for its
\* old and its new name.
C4_AliasesMergedBeforeGrouping ==
    status = "ok" =>
        /\ \A i \in 1..Len(df.rows) :
              /\ df.rows[i]["Time_Casa"] \notin DOMAIN team_mapping
              /\ df.rows[i]["Time_Visitante"] \notin DOMAIN team_mapping
        /\ \A old \in DOMAIN team_mapping :
              LET new == team_mapping[old]
                  totais == TotaisPorTime(df, "Gols_Time_Casa", "Gols_Time_Visitante")
                  raw == GolsNoArquivo(source, old) + GolsNoArquivo(source, new)
              IN  /\ new \in DOMAIN totais
                        <=> JogosNoArquivo(source, old) \cup JogosNoArquivo(source, new) # {}
                  /\ new \in DOMAIN totais => totais[new] = raw
                  /\ Len(JogosDoTime(df, new).rows)
                        = Cardinality(JogosNoArquivo(source, old) \cup JogosNoArquivo(source, new))
                  /\ (/\ out.page = "Análise Exploratória"
                      /\ sel.metricas = "Gols"
                      /\ out.jogos = Len(df.rows)
                      /\ new \in DOMAIN out.totais) => out.totais[new] = raw

\* C4's case: the chart of goal totals over a file that has a team under its
\* old name and under its new name, with a goal each
C4_Witness ==
    /\ status = "ok"
    /\ out.page = "Análise Exploratória"
    /\ sel.metricas = "Gols"
    /\ out.jogos = 2
    /\ GolsNoArquivo(source, "Ipswich") = 1
    /\ GolsNoArquivo(source, "Ipswich Town") = 1
    /\ "Ipswich Town" \in DOMAIN out.totais
    /\ out.totais["Ipswich Town"] = 2

\* C6: once loaded, the table df stays what load_data produced through every
\* later run, whatever page, scope and selection the run renders; the column
\* Campeao the hypothesis-test page adds goes to the working copy only.
C6_DfNeverMutated ==
    [][status = "ok" /\ status' = "ok" =>
          /\ df' = df
          /\ cache' = cache
          /\ df' = cache'
          /\ "Campeao" \notin df'.cols]_vars

\* C6's case: the hypothesis-test page on the whole history has added Campeao
\* to its working table of two rows
C6_Witness ==
    /\ status = "ok"
    /\ pagina = "Testes de Hipótese"
    /\ analise_tipo = Historica
    /\ "Campeao" \in df_analise.cols
    /\ Len(df_analise.rows) = 2
    /\ Len(df.rows) = 2

\* C7: the aggregations of a run leave the table they are given as it was: the
\* working table after the run is the table the run selected from df, with no
\* row, column or value added, removed or changed.
C7_AggregationsLeaveInput ==
    status = "ok" => df_analise = DfAnalise(analise_tipo, df)

\* a quotient in hundredths, rounded half up
Centesimos(q) == (q.num * 200 + q.den) \div (2 * q.den)

\* whether q is (vitorias * 3 + empates) / (jogos * 3) * 100
EhAproveitamento(q, vitorias, empates, jogos) ==
    /\ jogos > 0
    /\ q.err = ""
    /\ q.num * (jogos * 3) = (vitorias * 3 + empates) * 100 * q.den

\* the rows of a table a team plays in, those it won in its role and the drawn
\* ones among them, optionally of one season (<<>> for all)
LinhasDoTime(t, time, temp) ==
    {i \in 1..Len(t.rows) :
        /\ time \in {t.rows[i]["Time_Casa"], t.rows[i]["Time_Visitante"]}
        /\ temp # <<>> => t.rows[i]["Temporada"] = temp}

GanhasPor(t, time, temp) ==
    {i \in LinhasDoTime(t, time, temp) :
        \/ t.rows[i]["Time_Casa"] = time /\ t.rows[i]["Gols_Time_Casa"] > t.rows[i]["Gols_Time_Visitante"]
        \/ t.rows[i]["Time_Visitante"] = time /\ t.rows[i]["Gols_Time_Visitante"] > t.rows[i]["Gols_Time_Casa"]}

Empatadas(t, time, temp) ==
    {i \in LinhasDoTime(t, time, temp) :
        t.rows[i]["Gols_Time_Casa"] = t.rows[i]["Gols_Time_Visitante"]}

\* whether q is the performance percentage of a team over the working table,
\* or over one season of it
AproveitamentoCerto(q, t, time, temp) ==
    EhAproveitamento(q, Cardinality(GanhasPor(t, time, temp)),
                     Cardinality(Empatadas(t, time, temp)),
                     Cardinality(LinhasDoTime(t, time, temp)))

\* C8: the performance percentage is (wins * 3 + draws) / (games * 3) * 100
\* over the rows the team plays in: 10 wins and 5 draws in 20 games give 58.33,
\* and the team page's overall and per-season values and the comparison page's
\* values for both teams, overall and per season, are that quotient.
C8_AproveitamentoFormula ==
    /\ Centesimos(Aproveitamento(10, 5, 20)) = 5833
    /\ (status = "ok" /\ out.page = "Análise por Time" /\ out.mostra) =>
          LET base == DfAnalise(analise_tipo, df)
          IN  /\ out.err = ""
              /\ AproveitamentoCerto(out.aproveitamento, base, sel.time_selecionado, <<>>)
              /\ DOMAIN out.performance_data
                    = {base.rows[i]["Temporada"] : i \in LinhasDoTime(base, sel.time_selecionado, <<>>)}
              /\ \A temp \in DOMAIN out.performance_data :
                    AproveitamentoCerto(out.performance_data[temp].Aproveitamento,
                                        base, sel.time_selecionado, temp)
    /\ (status = "ok" /\ out.page = "Comparação entre Times" /\ out.mostra) =>
          LET base == DfAnalise(analise_tipo, df)
          IN  /\ out.err = ""
              /\ AproveitamentoCerto(out.lado1.aproveitamento, base, sel.time1, <<>>)
              /\ AproveitamentoCerto(out.lado2.aproveitamento, base, sel.time2, <<>>)
              /\ \A temp \in DOMAIN out.evolucao1 :
                    AproveitamentoCerto(out.evolucao1[temp], base, sel.time1, temp)
              /\ \A temp \in DOMAIN out.evolucao2 :
                    AproveitamentoCerto(out.evolucao2[temp], base, sel.time2, temp)

\* C8's case: the team page of a team with a win and a draw in two games of
\* different seasons
C8_Witness ==
    /\ status = "ok"
    /\ out.page = "Análise por Time"
    /\ out.mostra
    /\ out.err = ""
    /\ out.jogos = 2
    /\ out.vitorias = 1
    /\ out.empates = 1
    /\ Cardinality(DOMAIN out.performance_data) = 2
    /\ Centesimos(out.aproveitamento) = 6667

RECURSIVE SomaNoPapel(_, _, _, _)
\* a team's sum of one column over the rows where it holds a role, missing
\* cells counting nothing
SomaNoPapel(rows, papel, time, col) ==
    IF rows = <<>> THEN 0
    ELSE (IF Head(rows)[papel] = time /\ Head(rows)[col] # NaN THEN Head(rows)[col] ELSE 0)
             + SomaNoPapel(Tail(rows), papel, time, col)

\* whether q is the efficiency of a team over a table
EficienciaCerta(q, t, time) ==
    LET gols == SomaNoPapel(t.rows, "Time_Casa", time, "Gols_Time_Casa")
                    + SomaNoPapel(t.rows, "Time_Visitante", time, "Gols_Time_Visitante")
        chutes == SomaNoPapel(t.rows, "Time_Casa", time, "Chutes_Gol_Casa")
                    + SomaNoPapel(t.rows, "Time_Visitante", time, "Chutes_Gol_Visitante")
    IN  /\ q.err = ""
        /\ chutes > 0 => q.num * chutes = gols * 100 * q.den
        /\ chutes = 0 => q.num = 0

\* C10: a team's efficiency is goals / shots on target * 100 when its shots on
\* target, home plus away, are more than 0, and 0 with no error when they are
\* 0, whatever its goals: 10 goals with no shot give 0; the team page and
\* calcular_estatisticas_avancadas on the comparison page both show that value.
C10_EficienciaGuarded ==
    /\ Eficiencia(10, 0) = Frac(0, 1)
    /\ (status = "ok" /\ out.page = "Análise por Time" /\ out.mostra /\ out.err = ""
            /\ out.detalhado) =>
          EficienciaCerta(out.stats.eficiencia, DfAnalise(analise_tipo, df), sel.time_selecionado)
    /\ (status = "ok" /\ out.page = "Comparação entre Times" /\ out.mostra /\ out.err = ""
            /\ out.detalhado) =>
          /\ EficienciaCerta(out.stats_time1.eficiencia, DfAnalise(analise_tipo, df), sel.time1)
          /\ EficienciaCerta(out.stats_time2.eficiencia, DfAnalise(analise_tipo, df), sel.time2)

\* C10's case: the detailed team page of a team that scored without a shot on
\* target
C10_Witness ==
    /\ status = "ok"
    /\ out.page = "Análise por Time"
    /\ out.mostra
    /\ out.err = ""
    /\ out.detalhado
    /\ out.gols_marcados > 0
    /\ out.stats.chutes_gol_feitos = 0
    /\ out.stats.eficiencia = Frac(0, 1)

\* the rows of a table whose home and away teams are the two given teams
LinhasEntre(t, a, b) ==
    SelectSeq(t.rows, LAMBDA row : {row["Time_Casa"], row["Time_Visitante"]} = {a, b})

\* C11: the head-to-head rows of two teams are the same whichever of the two is
\* named first, and they are exactly the rows of the working table whose home
\* and away teams are those two; the team page shows those rows.
C11_ConfrontosSymmetric ==
    status = "ok" =>
        LET base == DfAnalise(analise_tipo, df)
        IN  /\ \A a \in Times(base) : \A b \in Times(base) :
                  /\ Confrontos(base, a, b).rows = Confrontos(base, b, a).rows
                  /\ Confrontos(base, a, b).rows = LinhasEntre(base, a, b)
            /\ (out.page = "Análise por Time" /\ out.mostra /\ out.err = ""
                    /\ sel.adversarios # NoneTime) =>
                  out.confrontos.confrontos
                      = LinhasEntre(base, sel.adversarios, sel.time_selecionado)

\* C11's case: the team page shows two meetings of the pair, one at each
\* team's ground
C11_Witness ==
    /\ status = "ok"
    /\ out.page = "Análise por Time"
    /\ out.mostra
    /\ out.err = ""
    /\ sel.adversarios # NoneTime
    /\ Len(out.confrontos.confrontos) = 2
    /\ out.confrontos.confrontos[1]["Time_Casa"] = out.confrontos.confrontos[2]["Time_Visitante"]
    /\ out.confrontos.confrontos[1]["Time_Casa"] # out.confrontos.confrontos[2]["Time_Casa"]

\* C12: when the selected team and opponent never met in the working table,
\* the head-to-head tab ends without an error, shows the informational message
\* and computes no win or draw metric.
C12_EmptyConfrontosIsInfo ==
    (/\ status = "ok"
     /\ out.page = "Análise por Time"
     /\ out.mostra
     /\ sel.adversarios # NoneTime
     /\ LinhasEntre(DfAnalise(analise_tipo, df), sel.time_selecionado, sel.adversarios) = <<>>) =>
        /\ out.err = ""
        /\ out.confrontos.mostra = "info"
        /\ out.confrontos.confrontos = <<>>
        /\ DOMAIN out.confrontos = {"mostra", "confrontos"}

\* C12's case: the team page over a working table of two games, for a team and
\* an opponent that each play in one of them and never met
C12_Witness ==
    /\ status = "ok"
    /\ out.page = "Análise por Time"
    /\ out.mostra
    /\ out.err = ""
    /\ Len(df_analise.rows) = 2
    /\ out.jogos = 1
    /\ sel.adversarios \in Times(DfAnalise(analise_tipo, df))
    /\ out.confrontos.mostra = "info"

\* the home wins of a team in a season, counted on the scores
VitoriasCasaDe(t, temp, time) ==
    Cardinality({i \in 1..Len(t.rows) :
        /\ t.rows[i]["Temporada"] = temp
        /\ t.rows[i]["Time_Casa"] = time
        /\ t.rows[i]["Gols_Time_Casa"] > t.rows[i]["Gols_Time_Visitante"]})

\* the home sides of a season
MandantesNa(t, temp) ==
    {t.rows[i]["Time_Casa"] : i \in {j \in 1..Len(t.rows) : t.rows[j]["Temporada"] = temp}}

\* the home sides of a season with the most home wins
MaisVitoriosos(t, temp) ==
    {time \in MandantesNa(t, temp) :
        \A outro \in MandantesNa(t, temp) :
            VitoriasCasaDe(t, temp, time) >= VitoriasCasaDe(t, temp, outro)}

\* the first row of a season in which a team is the home side
PrimeiraLinha(t, temp, time) ==
    CHOOSE i \in 1..Len(t.rows) :
        /\ t.rows[i]["Temporada"] = temp /\ t.rows[i]["Time_Casa"] = time
        /\ \A j \in 1..(i - 1) :
              ~(t.rows[j]["Temporada"] = temp /\ t.rows[j]["Time_Casa"] = time)

\* the team names in ascending string order
OrdemDosNomes ==
    <<"Arsenal", "Brighton", "Brighton & Hove Albion", "Ipswich", "Ipswich Town">>

PosicaoDoNome(time) == CHOOSE k \in 1..Len(OrdemDosNomes) : OrdemDosNomes[k] = time

\* the most successful home side of a season that comes first by name
CampeaoPorNome(t, temp) ==
    CHOOSE time \in MaisVitoriosos(t, temp) :
        \A outro \in MaisVitoriosos(t, temp) : PosicaoDoNome(time) <= PosicaoDoNome(outro)

\* C13 as stated: the champion of every season of the working table is a home
\* side with the most home wins of the season, and among several such sides
\* the one that comes first in row order.
C13_ChampionTiesByRowOrder ==
    (status = "ok" /\ out.page = "Testes de Hipótese") =>
        LET base == DfAnalise(analise_tipo, df)
        IN  /\ DOMAIN out.campeao_da = Unique(base, "Temporada")
            /\ \A temp \in DOMAIN out.campeao_da :
                  /\ out.campeao_da[temp] \in MaisVitoriosos(base, temp)
                  /\ \A outro \in MaisVitoriosos(base, temp) :
                        PrimeiraLinha(base, temp, out.campeao_da[temp])
                            <= PrimeiraLinha(base, temp, outro)

\* C13 amended: the champion of every season of the working table is a home
\* side with the most home wins of the season, and among several such sides
\* the one whose name comes first in ascending string order.
C13_ChampionTiesByName ==
    (status = "ok" /\ out.page = "Testes de Hipótese") =>
        LET base == DfAnalise(analise_tipo, df)
        IN  /\ DOMAIN out.campeao_da = Unique(base, "Temporada")
            /\ \A temp \in DOMAIN out.campeao_da :
                  out.campeao_da[temp] = CampeaoPorNome(base, temp)

\* C13's case: a season in which two home sides are level on one home win and
\* a third has none, the side first by name not being the first by row
C13_Witness ==
    /\ status = "ok"
    /\ out.page = "Testes de Hipótese"
    /\ \E temp \in DOMAIN out.campeao_da :
          LET base == DfAnalise(analise_tipo, df)
          IN  /\ Cardinality(MandantesNa(base, temp)) = 3
              /\ Cardinality(MaisVitoriosos(base, temp)) = 2
              /\ VitoriasCasaDe(base, temp, out.campeao_da[temp]) = 1
              /\ \E outro \in MaisVitoriosos(base, temp) :
                    PrimeiraLinha(base, temp, outro)
                        < PrimeiraLinha(base, temp, out.campeao_da[temp])

\* C14: on the hypothesis-test page a row's team is flagged champion iff it is
\* the champion of at least one season of the working table, whichever season
\* the row is of.
C14_FlagIffChampionOfSomeSeason ==
    (status = "ok" /\ out.page = "Testes de Hipótese") =>
        LET base == DfAnalise(analise_tipo, df)
        IN  /\ "Campeao" \in df_analise.cols
            /\ Len(df_analise.rows) = Len(base.rows)
            /\ \A i \in 1..Len(base.rows) :
                  df_analise.rows[i]["Campeao"]
                      <=> \E temp \in Unique(base, "Temporada") :
                              base.rows[i]["Time_Casa"] = CampeaoPorNome(base, temp)
            /\ out.n_campeoes
                  = Cardinality({i \in 1..Len(base.rows) :
                        \E temp \in Unique(base, "Temporada") :
                            base.rows[i]["Time_Casa"] = CampeaoPorNome(base, temp)})

\* C14's case: two seasons with different champions by home wins, both
\* flagged, one of them also in a row of the season it did not win, and a home
\* side that is champion of neither season, not flagged
C14_Witness ==
    /\ status = "ok"
    /\ out.page = "Testes de Hipótese"
    /\ Cardinality(DOMAIN out.campeao_da) = 2
    /\ Cardinality(out.champions) = 2
    /\ Len(df_analise.rows) = 3
    /\ \A temp \in DOMAIN out.campeao_da :
          VitoriasCasaDe(df_analise, temp, out.campeao_da[temp]) = 1
    /\ \E i, j, k \in 1..3 :
          /\ df_analise.rows[i]["Campeao"] /\ df_analise.rows[j]["Campeao"]
          /\ df_analise.rows[i]["Time_Casa"] # df_analise.rows[j]["Time_Casa"]
          /\ ~df_analise.rows[k]["Campeao"]

\* C15: a returned table holds, in every row, the label of the row's result
\* code (H the home win, A the away win, D the draw), and a file with a result
\* code outside H, A, D makes the load end in an error.
C15_InvalidResultCodeFails ==
    /\ status = "ok" =>
          \A i \in 1..Len(df.rows) :
              /\ df.rows[i]["Resultado_Final"] \in {"Vitória Casa", "Vitória Visitante", "Empate"}
              /\ df.rows[i]["Resultado_Final"] = "Vitória Casa" <=> source.rows[i]["FT Result"] = "H"
              /\ df.rows[i]["Resultado_Final"] = "Vitória Visitante" <=> source.rows[i]["FT Result"] = "A"
              /\ df.rows[i]["Resultado_Final"] = "Empate" <=> source.rows[i]["FT Result"] = "D"
    /\ (/\ status # "start"
        /\ "FT Result" \in source.cols
        /\ \E i \in 1..Len(source.rows) : source.rows[i]["FT Result"] \notin {"H", "A", "D"}) =>
          status \notin {"start", "ok"}

\* whether every row of a sequence has its statistics-complete flag set
TodasCompletas(rows) == \A i \in 1..Len(rows) : rows[i]["Estatisticas_Completas"]

\* C16: every row that enters a detailed aggregation (the correlation of shots
\* on target and goals, the efficiency, the totals of shots on target and of
\* yellow cards) has Estatisticas_Completas true.
C16_DetailedOnlyOnCompleteRows ==
    status = "ok" =>
        /\ (out.page = "Testes de Hipótese" /\ out.err = "") =>
              TodasCompletas(out.correlacao_linhas)
        /\ (out.page = "Análise por Time" /\ out.mostra /\ out.err = "") =>
              TodasCompletas(out.stats_linhas)
        /\ (out.page = "Comparação entre Times" /\ out.mostra /\ out.err = "") =>
              TodasCompletas(out.stats_linhas1) /\ TodasCompletas(out.stats_linhas2)

AnoInicial(temporada) == NumVal(SubSeq(temporada, 1, 4))

\* whether the rows of one table are those of another, column for column of a
\* set of columns
MesmasLinhas(a, b, cols) ==
    /\ Len(a) = Len(b)
    /\ \A i \in 1..Len(a) : \A c \in cols : a[i][c] = b[i][c]

\* C18: whatever the page and its selections, the working table holds every
\* row of the loaded table in the full-history scope, and exactly the rows of a
\* season from 2000/01 on in the detailed scope; Periodo_Completo is true for
\* exactly those rows.
C18_DfAnaliseByScopeAlone ==
    status = "ok" =>
        /\ \A i \in 1..Len(df.rows) :
              df.rows[i]["Periodo_Completo"] <=> AnoInicial(df.rows[i]["Temporada"]) >= 2000
        /\ analise_tipo = Historica => MesmasLinhas(df_analise.rows, df.rows, df.cols)
        /\ analise_tipo = Detalhada =>
              MesmasLinhas(df_analise.rows,
                           SelectSeq(df.rows, LAMBDA row : AnoInicial(row["Temporada"]) >= 2000),
                           df.cols)

\* C18's case: the detailed scope over a table with a row of 1999/00 and a row
\* of 2000/01 whose statistics are not complete, on a page with a team selected
C18_Witness ==
    /\ status = "ok"
    /\ analise_tipo = Detalhada
    /\ pagina = "Análise por Time"
    /\ out.mostra
    /\ Len(df.rows) = 2
    /\ Len(df_analise.rows) = 1
    /\ ~df_analise.rows[1]["Estatisticas_Completas"]

\* C19: for season labels of the zero-padded "YYYY/YY" format the string
\* order is the order of the years: Temporada >= temporada_min and Temporada >=
\* "2000/01" hold exactly for the seasons not earlier than the bound, and
\* sorted() lists the labels from the earliest season to the latest.
C19_SeasonOrderIsChronological ==
    /\ calc.f = "compare" =>
          /\ calc.r.ge <=> AnoInicial(calc.a) >= AnoInicial(calc.b)
          /\ calc.r.periodo <=> AnoInicial(calc.a) >= 2000
    /\ calc.f = "sorted" =>
          /\ {calc.r[i] : i \in 1..Len(calc.r)} = {calc.a, calc.b, calc.c}
          /\ \A i \in 1..Len(calc.r) : \A j \in 1..Len(calc.r) :
                i < j => AnoInicial(calc.r[i]) < AnoInicial(calc.r[j])

\* C19's case: 2000/01, 1999/00 and 2009/10 sorted, the seasons either side of
\* the century being in year order though "00" < "01" < "10" is not
C19_Witness ==
    /\ calc.f = "sorted"
    /\ calc.a = SeasonLabel(2009)
    /\ calc.b = SeasonLabel(2000)
    /\ calc.c = SeasonLabel(1999)
    /\ calc.r = <<SeasonLabel(1999), SeasonLabel(2000), SeasonLabel(2009)>>

\* C20: no run of a page evaluates a performance percentage over no games: a
\* selected team is a team of the working table and has a game in it, the team
\* page's seasons are seasons the team plays in, the comparison page's season
\* values exist only for seasons a team plays in, and a page with no team or no
\* second team to select shows nothing.
C20_NoZeroGamesReached ==
    status = "ok" =>
        LET base == DfAnalise(analise_tipo, df)
        IN  /\ out.page \in {"Testes de Hipótese", "Análise por Time", "Comparação entre Times"} =>
                  out.err # "ZeroDivisionError"
            /\ out.page = "Análise por Time" =>
                  /\ out.mostra <=> Times(base) # {}
                  /\ out.mostra =>
                        /\ sel.time_selecionado \in Times(base)
                        /\ out.jogos > 0
                        /\ out.aproveitamento.err = ""
                        /\ \A temp \in DOMAIN out.performance_data :
                              /\ out.performance_data[temp].Jogos > 0
                              /\ out.performance_data[temp].Aproveitamento.err = ""
            /\ out.page = "Comparação entre Times" =>
                  /\ out.mostra <=> Cardinality(Times(base)) >= 2
                  /\ out.mostra =>
                        /\ {sel.time1, sel.time2} \subseteq Times(base)
                        /\ sel.time1 # sel.time2
                        /\ out.lado1.jogos > 0 /\ out.lado2.jogos > 0
                        /\ out.lado1.aproveitamento.err = ""
                        /\ out.lado2.aproveitamento.err = ""
                        /\ \A temp \in DOMAIN out.evolucao1 :
                              /\ out.evolucao1[temp].err = ""
                              /\ LinhasDoTime(base, sel.time1, temp) # {}
                        /\ \A temp \in DOMAIN out.evolucao2 :
                              /\ out.evolucao2[temp].err = ""
                              /\ LinhasDoTime(base, sel.time2, temp) # {}

\* C20's case: the comparison page over two seasons, each team playing in one
\* of them only
C20_Witness ==
    /\ status = "ok"
    /\ out.page = "Comparação entre Times"
    /\ out.mostra
    /\ Cardinality(Unique(df_analise, "Temporada")) = 2
    /\ Cardinality(DOMAIN out.evolucao1) = 1
    /\ Cardinality(DOMAIN out.evolucao2) = 1
    /\ DOMAIN out.evolucao1 # DOMAIN out.evolucao2

\* the rows of a sequence a team won in its role, by the result label
GanhasPeloRotulo(rows, time) ==
    {i \in 1..Len(rows) :
        \/ rows[i]["Time_Casa"] = time /\ rows[i]["Resultado_Final"] = "Vitória Casa"
        \/ rows[i]["Time_Visitante"] = time /\ rows[i]["Resultado_Final"] = "Vitória Visitante"}

\* the drawn rows of a sequence, by the result label
EmpatadasPeloRotulo(rows) == {i \in 1..Len(rows) : rows[i]["Resultado_Final"] = "Empate"}

\* whether q, the performance percentage of a team over the rows it plays in,
\* is in 0..100, is 100 exactly when every row is a win of the team and 0
\* exactly when no row is a win of the team or a draw
DentroDosLimites(q, rows, time) ==
    LET ganhas == GanhasPeloRotulo(rows, time)
        empatadas == EmpatadasPeloRotulo(rows)
    IN  /\ Cardinality(ganhas) + Cardinality(empatadas) <= Len(rows)
        /\ q.err = ""
        /\ 0 <= q.num /\ q.num <= 100 * q.den
        /\ q.num = 100 * q.den <=> Cardinality(ganhas) = Len(rows)
        /\ q.num = 0 <=> ganhas \cup empatadas = {}

\* the rows of a table a team plays in, optionally of one season (<<>> for all)
JogosDe(t, time, temp) ==
    SelectSeq(t.rows, LAMBDA row :
        /\ time \in {row["Time_Casa"], row["Time_Visitante"]}
        /\ temp # <<>> => row["Temporada"] = temp)

\* C21: for a team with a game in the working table, wins + draws <= games and
\* the performance percentage is between 0 and 100, 100 exactly when the team
\* won every game and 0 exactly when it won and drew none: on the team page,
\* overall and per season, and for both teams of the comparison page.
C21_AproveitamentoBetween0And100 ==
    status = "ok" =>
        LET base == DfAnalise(analise_tipo, df)
        IN  /\ (out.page = "Análise por Time" /\ out.mostra /\ out.err = "") =>
                  /\ out.vitorias + out.empates <= out.jogos
                  /\ DentroDosLimites(out.aproveitamento,
                                      JogosDe(base, sel.time_selecionado, <<>>),
                                      sel.time_selecionado)
                  /\ \A temp \in DOMAIN out.performance_data :
                        DentroDosLimites(out.performance_data[temp].Aproveitamento,
                                         JogosDe(base, sel.time_selecionado, temp),
                                         sel.time_selecionado)
            /\ (out.page = "Comparação entre Times" /\ out.mostra /\ out.err = "") =>
                  /\ out.lado1.vitorias + out.lado1.empates <= out.lado1.jogos
                  /\ out.lado2.vitorias + out.lado2.empates <= out.lado2.jogos
                  /\ DentroDosLimites(out.lado1.aproveitamento,
                                      JogosDe(base, sel.time1, <<>>), sel.time1)
                  /\ DentroDosLimites(out.lado2.aproveitamento,
                                      JogosDe(base, sel.time2, <<>>), sel.time2)

\* C21's case: the comparison of a team that won both its games, at 100, with
\* a team that lost its only game, at 0
C21_Witness ==
    /\ status = "ok"
    /\ out.page = "Comparação entre Times"
    /\ out.mostra
    /\ out.err = ""
    /\ out.lado1.jogos = 2
    /\ out.lado1.vitorias = 2
    /\ out.lado1.aproveitamento = Frac(100, 1)
    /\ out.lado2.jogos = 1
    /\ out.lado2.aproveitamento = Frac(0, 1)

\* C22: in a head-to-head of at least one match whose result labels are all
\* canonical, the opponent's wins, obtained as matches minus the selected
\* team's wins minus the draws, are not negative and are the number of matches
\* the opponent won in its role.
C22_OpponentWinsBySubtraction ==
    (/\ status = "ok"
     /\ out.page = "Análise por Time"
     /\ out.mostra
     /\ out.err = ""
     /\ out.confrontos.mostra = "metricas"
     /\ \A i \in 1..Len(out.confrontos.confrontos) :
           out.confrontos.confrontos[i]["Resultado_Final"]
               \in {"Vitória Casa", "Vitória Visitante", "Empate"}) =>
        /\ Len(out.confrontos.confrontos) > 0
        /\ out.confrontos.vitorias_adversario >= 0
        /\ out.confrontos.vitorias_adversario
              = Cardinality(GanhasPeloRotulo(out.confrontos.confrontos, sel.adversarios))
        /\ out.confrontos.vitorias_time + out.confrontos.empates
              + out.confrontos.vitorias_adversario = Len(out.confrontos.confrontos)

\* C22's case: two matches of the pair, one drawn and one won by the opponent
C22_Witness ==
    /\ status = "ok"
    /\ out.page = "Análise por Time"
    /\ out.mostra
    /\ out.err = ""
    /\ out.confrontos.mostra = "metricas"
    /\ Len(out.confrontos.confrontos) = 2
    /\ out.confrontos.empates = 1
    /\ out.confrontos.vitorias_time = 0
    /\ out.confrontos.vitorias_adversario = 1

\* C23: on every page the data-quality warning is shown iff the working table
\* has a row of one of the seven seasons 1993/94 to 1999/00, so it is never
\* shown in the detailed scope.
C23_AlertaIffPartialSeason ==
    (status = "ok" /\ out.page # "none") =>
        /\ out.alerta <=>
              \E i \in 1..Len(df_analise.rows) :
                  AnoInicial(df_analise.rows[i]["Temporada"]) \in 1993..1999
        /\ analise_tipo = Detalhada => ~out.alerta

\* C23's case: the detailed scope over a file with a row of 1999/00 and a row
\* of 2000/01, no warning shown
C23_Witness ==
    /\ status = "ok"
    /\ out.page = "Testes de Hipótese"
    /\ analise_tipo = Detalhada
    /\ Len(df.rows) = 2
    /\ Len(df_analise.rows) = 1
    /\ ~out.alerta

=============================================================================
